---- MODULE Spec2Model ----
(***************************************************************************)
(* veridian: the source registry and its parse scheduling, together with   *)
(* the formatting request handlers that call into it.                      *)
(*                                                                         *)
(* The request handlers are src/src/format.rs and src/src/server.rs.  The  *)
(* registry itself (crate::sources) is described by spec.md sections 3, 4  *)
(* and 5; its operations are modelled here from those sections.            *)
(***************************************************************************)
EXTENDS Integers, Sequences, FiniteSets, TLC

(***************************************************************************)
(* Bounds of the model.                                                    *)
(***************************************************************************)
\* open and apply_edit calls in one run
MaxOps == 3

(***************************************************************************)
(* Inputs.                                                                 *)
(***************************************************************************)
URIs == {"top.sv", "inc.svh"}

\* the files a file structurally depends on: top.sv includes inc.svh
Includes(u) == IF u = "top.sv" THEN {"inc.svh"} ELSE {}

\* the buffer contents of the model: the empty file and the one-character files
Texts == {<<>>, <<"a">>, <<"b">>}

\* the contents a file is opened with (project walk or editor)
OpenTexts == {<<>>, <<"a">>}

\* a range replacement: the characters [s, e) are replaced by t
\* (single-line buffers: a position is its column)
Replacements ==
    { [s |-> 0, e |-> 0, t |-> <<"b">>],
      [s |-> 0, e |-> 1, t |-> <<>>] }

\* the apply_edit batches of the model: one replacement, or two in a row
Batches == [{1} -> Replacements] \cup [{1, 2} -> Replacements]

Ids == 1..Cardinality(URIs)

\* the request handler tasks that may be suspended in wait_parse_ready
Handlers == {"h1"}

NoId == 0

NoUri == "none"

NoVersion == -1

(***************************************************************************)
(* Text Buffer: incremental range replacement.                             *)
(***************************************************************************)
ValidRange(buf, r) == r.s <= r.e /\ r.e <= Len(buf)

Replace(buf, r) == SubSeq(buf, 1, r.s) \o r.t \o SubSeq(buf, r.e + 1, Len(buf))

\* the replacements of a batch applied in the order received
RECURSIVE ApplyBatch(_, _)
ApplyBatch(buf, batch) ==
    IF batch = <<>> THEN buf
    ELSE ApplyBatch(Replace(buf, Head(batch)), Tail(batch))

\* every replacement of the batch addresses a range of the buffer it meets
RECURSIVE BatchValid(_, _)
BatchValid(buf, batch) ==
    IF batch = <<>> THEN TRUE
    ELSE /\ ValidRange(buf, Head(batch))
         /\ Replace(buf, Head(batch)) \in Texts
         /\ BatchValid(Replace(buf, Head(batch)), Tail(batch))

(***************************************************************************)
(* Diagnostics pipeline: the output of the checker tools.                  *)
(***************************************************************************)
\* the checker tools, in the order get_diagnostics runs them
Tools == <<"verilator_syntax", "verible_syntax", "verible_lint">>

ToolSet == {"verilator_syntax", "verible_syntax", "verible_lint"}

\* the name verible-verilog-syntax prints for its standard input ("-")
StdinPath == "-"

\* a u32 as its two 16-bit halves
Half == 65536

U32Of(hi, lo) == [hi |-> hi, lo |-> lo]

U32Zero == U32Of(0, 0)

U32One == U32Of(0, 1)

U32Max == U32Of(Half - 1, Half - 1)

\* the digit strings the tools print in a numeric field, as digit sequences
NoDigits == <<>>

Digits0 == <<0>>

Digits1 == <<1>>

Digits2 == <<2>>

\* 4294967296: one more than a u32 holds
DigitsTooBig == <<4, 2, 9, 4, 9, 6, 7, 2, 9, 6>>

\* str::parse::<u32>() of the first k digits: the value so far, or overflow
RECURSIVE ParseDigits(_, _)
ParseDigits(ds, k) ==
    IF k = 0 THEN [ok |-> TRUE, n |-> U32Zero]
    ELSE LET r == ParseDigits(ds, k - 1)
             lo == r.n.lo * 10 + ds[k]
             hi == r.n.hi * 10 + (lo \div Half)
         IN  IF ~r.ok \/ hi >= Half
             THEN [ok |-> FALSE, n |-> U32Zero]
             ELSE [ok |-> TRUE, n |-> U32Of(hi, lo % Half)]

\* str::parse::<u32>(): Err on the empty string and on a value above u32::MAX
ParseU32(ds) ==
    IF ds = NoDigits THEN [ok |-> FALSE, n |-> U32Zero] ELSE ParseDigits(ds, Len(ds))

\* n - 1 on a u32 that is not zero
Pred32(n) == IF n.lo = 0 THEN U32Of(n.hi - 1, Half - 1) ELSE U32Of(n.hi, n.lo - 1)

\* how a build treats the u32 subtraction 0 - 1: a debug build panics, a
\* release build wraps
OverflowModes == {"debug", "release"}

\* n - 1 as the build computes it
Sub1(n, mode) ==
    IF n # U32Zero THEN [panic |-> FALSE, n |-> Pred32(n)]
    ELSE IF mode = "debug" THEN [panic |-> TRUE, n |-> U32Zero]
    ELSE [panic |-> FALSE, n |-> U32Max]

\* an output line in the verilator grammar:
\* %Severity[-CODE]: path:line:[col:] message
VerilatorLine(sev, code, path, line, hascol, col) ==
    [g |-> "verilator", pct |-> TRUE, sev |-> sev, code |-> code, path |-> path,
     line |-> line, hascol |-> hascol, col |-> col, hasend |-> FALSE, endcol |-> NoDigits]

\* an output line in the verible grammar: path:line:startcol[-endcol]: message ...
VeribleLine(path, line, col, hasend, endcol) ==
    [g |-> "verible", pct |-> FALSE, sev |-> "", code |-> FALSE, path |-> path,
     line |-> line, hascol |-> TRUE, col |-> col, hasend |-> hasend, endcol |-> endcol]

\* a line in neither grammar (a banner, a summary), starting with '%' or not
OtherLine(pct) ==
    [g |-> "other", pct |-> pct, sev |-> "", code |-> FALSE, path |-> "",
     line |-> NoDigits, hascol |-> FALSE, col |-> NoDigits, hasend |-> FALSE,
     endcol |-> NoDigits]

\* the file other than f that a tool may report on
OtherFile(f) == IF f = "top.sv" THEN "inc.svh" ELSE "top.sv"

\* lines verilator may print on stderr when it checks f
VerilatorLines(f) ==
    { VerilatorLine("Error", FALSE, f, Digits1, TRUE, Digits1),
      VerilatorLine("Warning", TRUE, f, Digits2, FALSE, NoDigits),
      VerilatorLine("Warning", FALSE, f, Digits1, TRUE, Digits1),
      VerilatorLine("Error", FALSE, f, DigitsTooBig, TRUE, Digits1),
      VerilatorLine("Error", FALSE, f, Digits0, TRUE, Digits1),
      VerilatorLine("Error", FALSE, OtherFile(f), Digits1, TRUE, Digits1),
      VerilatorLine("Error", FALSE, OtherFile(f), DigitsTooBig, TRUE, Digits1),
      OtherLine(TRUE),
      OtherLine(FALSE) }

\* lines a verible tool may print about the file it names p
VeribleLinesOn(p) ==
    { VeribleLine(p, Digits1, Digits1, FALSE, NoDigits),
      VeribleLine(p, Digits2, Digits1, TRUE, Digits2),
      VeribleLine(p, NoDigits, Digits1, FALSE, NoDigits),
      VeribleLine(p, Digits1, Digits1, TRUE, DigitsTooBig),
      VeribleLine(p, Digits1, Digits1, TRUE, Digits0) }

\* lines verible-verilog-syntax may print on stdout: it reads standard input
VeribleSyntaxLines == VeribleLinesOn(StdinPath) \cup {OtherLine(FALSE)}

\* lines verible-verilog-lint may print on stderr when it checks f
VeribleLintLines(f) ==
    VeribleLinesOn(f)
        \cup {VeribleLine(OtherFile(f), Digits1, Digits1, FALSE, NoDigits), OtherLine(FALSE)}

LinesOf(t, f) ==
    CASE t = "verilator_syntax" -> VerilatorLines(f)
      [] t = "verible_syntax" -> VeribleSyntaxLines
      [] t = "verible_lint" -> VeribleLintLines(f)

\* what a tool prints: up to two lines
OutputsOf(t, f) ==
    {<<>>} \cup {<<l>> : l \in LinesOf(t, f)}
           \cup {<<l1, l2>> : l1 \in LinesOf(t, f), l2 \in LinesOf(t, f)}

(***************************************************************************)
(* Diagnostics pipeline: extraction of diagnostics from a tool's output.   *)
(***************************************************************************)
\* Diagnostic::new(range, severity, .., source, ..) made from line k of the
\* output of tool t; tool, k and origin record where it came from
Diagnostic(t, k, l, source, severity, sl, sc, el, ec) ==
    [source |-> source, severity |-> severity,
     start |-> [line |-> sl, character |-> sc],
     end |-> [line |-> el, character |-> ec],
     tool |-> t, k |-> k, origin |-> l]

\* what the body of a tool's loop does with one line
Continue == [act |-> "continue"]

ReturnNone == [act |-> "return_none"]

Panics == [act |-> "panic"]

Push(d) == [act |-> "push", diag |-> d]

\* verilator_severity
verilator_severity(sev) ==
    CASE sev = "Error" -> "ERROR"
      [] sev = "Warning" -> "WARNING"
      [] OTHER -> "INFORMATION"

\* the verilator pattern captures the line (line is \d+, the column optional)
VerilatorCaptures(l) == l.g = "verilator" /\ l.line # NoDigits

\* the verible pattern captures the line (line, startcol and endcol are \d*)
VeribleCaptures(l) == l.g = "verible"

\* verilator_syntax: a line that the pattern does not capture
VerilatorNoCapture == Continue

\* verilator_syntax: a captured line that names another file than the checked one
VerilatorOtherFile == Continue

\* verilator_syntax: the body of the loop over the lines starting with '%'
VerilatorOnLine(l, k, f, mode) ==
    IF ~l.pct THEN Continue
    ELSE IF ~VerilatorCaptures(l) THEN VerilatorNoCapture
    ELSE IF l.path # f THEN VerilatorOtherFile
    ELSE LET severity == verilator_severity(l.sev)
             line == ParseU32(l.line)
             col == ParseU32(IF l.hascol THEN l.col ELSE Digits1)
             pl == Sub1(line.n, mode)
             pc == Sub1(col.n, mode)
         IN  IF ~line.ok \/ ~col.ok THEN ReturnNone
             ELSE IF pl.panic \/ pc.panic THEN Panics
             ELSE IF severity = "WARNING" /\ ~l.code THEN ReturnNone
             ELSE Push(Diagnostic("verilator_syntax", k, l, "verilator", severity,
                                  pl.n, pc.n, pl.n, pc.n))

\* verible_syntax, verible_lint: a line that the pattern does not capture
VeribleNoCapture == ReturnNone

\* a line with a bad number that is skipped
VeribleBadNumberSkipped == Continue

\* verible_syntax, verible_lint: a captured line whose number does not parse
VeribleBadNumber == ReturnNone

\* verible_syntax, verible_lint: the body of the loop over the lines
VeribleOnLine(t, l, k, mode) ==
    IF ~VeribleCaptures(l) THEN VeribleNoCapture
    ELSE LET line == ParseU32(l.line)
             startcol == ParseU32(l.col)
             endcol == IF l.hasend THEN ParseU32(l.endcol) ELSE startcol
             pl == Sub1(line.n, mode)
             ps == Sub1(startcol.n, mode)
             pe == Sub1(endcol.n, mode)
         IN  IF ~line.ok \/ ~startcol.ok \/ ~endcol.ok THEN VeribleBadNumber
             ELSE IF pl.panic \/ ps.panic \/ pe.panic THEN Panics
             ELSE Push(Diagnostic(t, k, l, "verible", "ERROR", pl.n, ps.n, pl.n, pe.n))

OnLine(t, l, k, f, mode) ==
    IF t = "verilator_syntax" THEN VerilatorOnLine(l, k, f, mode)
    ELSE VeribleOnLine(t, l, k, mode)

\* what a tool function returns: None, Some(diags), or it panics
None == [some |-> FALSE, panic |-> FALSE, diags |-> <<>>]

Some(diags) == [some |-> TRUE, panic |-> FALSE, diags |-> diags]

Panicked == [some |-> FALSE, panic |-> TRUE, diags |-> <<>>]

\* the loop over the lines from line k on, diags collected so far
RECURSIVE Extract(_, _, _, _, _, _)
Extract(t, lines, k, f, mode, diags) ==
    IF k > Len(lines) THEN Some(diags)
    ELSE LET r == OnLine(t, lines[k], k, f, mode)
         IN  CASE r.act = "continue" -> Extract(t, lines, k + 1, f, mode, diags)
               [] r.act = "push" -> Extract(t, lines, k + 1, f, mode, Append(diags, r.diag))
               [] r.act = "return_none" -> None
               [] r.act = "panic" -> Panicked

\* a run of a tool: how it goes and what the tool prints
Run(how, lines) == [how |-> how, lines |-> lines]

NoRun == Run("none", <<>>)

\* spawn, the write to standard input or the wait fails
ProcessFailures == {"spawn_failed", "write_failed", "wait_failed"}

\* the runs of tool t on file f whose executable is, or is not, there
RunsOf(t, f, located) ==
    IF ~located THEN {Run("spawn_failed", <<>>)}
    ELSE {Run(h, <<>>) : h \in ProcessFailures}
            \cup {Run("success", o) : o \in {<<>>} \cup {<<l>> : l \in LinesOf(t, f)}}
            \cup {Run("not_utf8", <<>>)}
            \cup {Run("failure", o) : o \in OutputsOf(t, f)}

\* a tool whose output is read for findings whatever its exit status
OnSuccessParsed(t, run, f, mode) == Extract(t, run.lines, 1, f, mode, <<>>)

\* a tool reports success: nothing is parsed
OnSuccess(t, run, f, mode) == None

\* a tool function that unwraps where the code returns None
ToolResultUnwrapped(t, run, f, mode) ==
    CASE run.how \in ProcessFailures -> Panicked
      [] run.how = "success" -> OnSuccess(t, run, f, mode)
      [] run.how = "not_utf8" -> Panicked
      [] run.how = "failure" -> Extract(t, run.lines, 1, f, mode, <<>>)

\* verilator_syntax / verible_syntax / verible_lint
ToolResult(t, run, f, mode) ==
    CASE run.how \in ProcessFailures -> None
      [] run.how = "success" -> OnSuccess(t, run, f, mode)
      [] run.how = "not_utf8" -> None
      [] run.how = "failure" -> Extract(t, run.lines, 1, f, mode, <<>>)

\* Option::unwrap_or_default
unwrap_or_default(r) == IF r.some THEN r.diags ELSE <<>>

\* the URIs get_diagnostics is called on: a file, and a document without a file
DiagUris == {"top.sv", "untitled:1"}

\* Url::to_file_path succeeds
HasFilePath(u) == u \in URIs

\* the tool is given the file's path (verible_syntax reads standard input only)
NeedsPath(t) == t # "verible_syntax"

\* the file name the tool is run on
PathFor(t, u) == IF NeedsPath(t) THEN u ELSE StdinPath

(***************************************************************************)
(* State.                                                                  *)
(***************************************************************************)
VARIABLES
    names,      \* URI -> identity (NoId: none yet)
    nfiles,     \* number of entries; identities are 1..nfiles
    uri,        \* entry: canonical location
    buffer,     \* entry: current text
    version,    \* entry: edit counter
    status,     \* entry: "Unparsed" | "Parsing" | "Ready" | "Stale"
    sver,       \* entry: the v of Parsing(v) and Ready(v, _)
    result,     \* entry: last parse result, tagged with its version
    scheduled,  \* entry: a parse is scheduled and not yet started
    inflight,   \* entry: the parses in flight, each [v, src]
    edit,       \* the apply_edit in progress (it holds the entry's write lock)
    lastEdit,   \* the number of replacements of the last batch committed
    nops,       \* open and apply_edit calls so far
    hpc,        \* handler: "idle" | "got_id" | "waiting" | "returned"
    hkind,      \* handler: "formatting" (either formatting handler) | "query" | "read"
    hid,        \* handler: the identity it waits on
    hdeps,      \* handler: include_dependencies
    hv0,        \* handler: the version recorded when the wait started
    hret,       \* handler: what wait_parse_ready returned
    hsnap,      \* handler: the entry as it was when the wait or the read returned
    hedits      \* handler: the edits a formatting handler answers with

VARIABLES
    conf,        \* ProjectConfig: tool -> enabled
    located,     \* tool -> its executable is on the search path
    ipc,         \* initialize: "new" | "ok" | "error"
    iload,       \* initialize: how read_config went
    isrcs,       \* initialize: the registry's init has been called
    gpc,         \* get_diagnostics: "idle" | "run" | "returned" | "panicked"
    guri,        \* get_diagnostics: the uri it was called on
    gk,          \* get_diagnostics: the index in Tools of the tool coming next
    diagnostics, \* get_diagnostics: the list collected so far
    drun,        \* get_diagnostics: the run of the tool that came last
    pevents,     \* open and save events received so far
    ppc,         \* did_open / did_save task: "idle" | "computed"
    plist,       \* did_open / did_save task: [ev, diagnostics] it is about to publish
    published    \* the client: [ev, diagnostics] last published for the file

config == <<conf, located, ipc, iload, isrcs>>

pipeline == <<gpc, guri, gk, diagnostics, drun>>

publishing == <<pevents, ppc, plist, published>>

vars == <<names, nfiles, uri, buffer, version, status, sver, result, scheduled,
          inflight, edit, lastEdit, nops, hpc, hkind, hid, hdeps, hv0, hret, hsnap,
          config, pipeline, publishing>>

\* everything but the source registry and its handlers
server == <<config, pipeline, publishing>>

\* the source registry and its handlers
vars_registry == <<names, nfiles, uri, buffer, version, status, sver, result, scheduled,
                   inflight, edit, lastEdit, nops, hpc, hkind, hid, hdeps, hv0, hret,
                   hsnap, hedits>>

registry == <<names, nfiles, uri>>

entries == <<buffer, version, status, sver, result, scheduled>>

handlers == <<hpc, hkind, hid, hdeps, hv0, hret, hsnap, hedits>>

NoResult == [v |-> NoVersion, ok |-> FALSE, src |-> <<>>]

\* the handler has not reached its return value
NoAnswer == [answered |-> FALSE, some |-> FALSE, edits |-> <<>>]

NoEdit == [id |-> NoId, batch |-> <<>>, k |-> 0, pre |-> <<>>]

NoSnap == [status |-> "none", v |-> NoVersion, fresh |-> FALSE,
           depsReady |-> FALSE, depBusy |-> FALSE, whole |-> TRUE]

\* ProjectConfig::default(): every tool enabled
DefaultConf == [t \in ToolSet |-> TRUE]

\* the tasks that run did_open and did_save
Publishers == {"p1", "p2"}

\* a diagnostic list and the event whose run produced it (0: none yet)
NoList == [ev |-> 0, diagnostics |-> <<>>]

Init ==
    /\ names = [u \in URIs |-> NoId]
    /\ nfiles = 0
    /\ uri = [i \in Ids |-> NoUri]
    /\ buffer = [i \in Ids |-> <<>>]
    /\ version = [i \in Ids |-> 0]
    /\ status = [i \in Ids |-> "Unparsed"]
    /\ sver = [i \in Ids |-> NoVersion]
    /\ result = [i \in Ids |-> NoResult]
    /\ scheduled = [i \in Ids |-> FALSE]
    /\ inflight = [i \in Ids |-> {}]
    /\ edit = NoEdit
    /\ lastEdit = 0
    /\ nops = 0
    /\ hpc = [h \in Handlers |-> "idle"]
    /\ hkind = [h \in Handlers |-> "none"]
    /\ hid = [h \in Handlers |-> NoId]
    /\ hdeps = [h \in Handlers |-> FALSE]
    /\ hv0 = [h \in Handlers |-> NoVersion]
    /\ hret = [h \in Handlers |-> FALSE]
    /\ hsnap = [h \in Handlers |-> NoSnap]
    /\ hedits = [h \in Handlers |-> NoAnswer]
    /\ conf = DefaultConf
    /\ located = [t \in ToolSet |-> FALSE]
    /\ ipc = "new"
    /\ iload = "none"
    /\ isrcs = FALSE
    /\ gpc = "idle"
    /\ guri = NoUri
    /\ gk = 0
    /\ diagnostics = <<>>
    /\ drun = NoRun
    /\ pevents = 0
    /\ ppc = [p \in Publishers |-> "idle"]
    /\ plist = [p \in Publishers |-> NoList]
    /\ published = NoList

(***************************************************************************)
(* Source Registry: identities.                                            *)
(***************************************************************************)
Known(i) == i \in 1..nfiles

\* get_id allocating a fresh identity on every call
get_id_always_new(u) == nfiles + 1

\* get_id(uri): the existing identity, or the next free one
get_id(u) == IF names[u] # NoId THEN names[u] ELSE nfiles + 1

\* the registry after get_id(u): a new identity gets an Unparsed entry
\* (the entry fields of an unused identity already hold the Unparsed values)
GetIdEffect(u) ==
    /\ get_id(u) \in Ids
    /\ names' = [names EXCEPT ![u] = get_id(u)]
    /\ nfiles' = IF get_id(u) > nfiles THEN nfiles + 1 ELSE nfiles
    /\ uri' = IF get_id(u) > nfiles THEN [uri EXCEPT ![get_id(u)] = u] ELSE uri

GetId(u) ==
    /\ names[u] = NoId
    /\ GetIdEffect(u)
    /\ UNCHANGED <<entries, inflight, edit, lastEdit, nops, handlers>>
    /\ UNCHANGED server

(***************************************************************************)
(* Source Registry: open and apply_edit.                                   *)
(***************************************************************************)
\* the entry's write lock is free
Unlocked(i) == edit.id # i

\* open(uri, text): installs the buffer, sets version = 0, schedules a parse
Open(u, text) ==
    /\ nops < MaxOps
    /\ nops' = nops + 1
    /\ GetIdEffect(u)
    /\ Unlocked(get_id(u))
    /\ LET i == get_id(u) IN
         /\ buffer' = [buffer EXCEPT ![i] = text]
         /\ version' = [version EXCEPT ![i] = 0]
         /\ status' = [status EXCEPT ![i] = IF @ = "Unparsed" THEN @ ELSE "Stale"]
         /\ sver' = [sver EXCEPT ![i] = NoVersion]
         /\ scheduled' = [scheduled EXCEPT ![i] = TRUE]
    /\ UNCHANGED <<result, inflight, edit, lastEdit, handlers>>
    /\ UNCHANGED server

\* the version after an accepted batch of n replacements, counted per replacement
VersionPerReplacement(v, n) == v + n

\* the version after an accepted batch of n replacements
VersionAfterBatch(v, n) == v + 1

\* the entry has been opened
Opened(i) == Known(i) /\ (scheduled[i] \/ status[i] # "Unparsed")

\* apply_edit(identity, range_edits), accepted (the document is open and the
\* ranges lie in the buffer): the write lock is taken
BeginEdit(i, batch) ==
    /\ Opened(i)
    /\ edit.id = NoId
    /\ nops < MaxOps
    /\ BatchValid(buffer[i], batch)
    /\ nops' = nops + 1
    /\ edit' = [id |-> i, batch |-> batch, k |-> 0, pre |-> buffer[i]]
    /\ UNCHANGED <<registry, entries, inflight, lastEdit, handlers>>
    /\ UNCHANGED server

\* the replacement applied next: in the order received
NextReplacement == edit.batch[edit.k + 1]

\* apply_edit: one replacement applied under the lock
EditStep ==
    /\ edit.id # NoId
    /\ edit.k < Len(edit.batch)
    /\ ValidRange(buffer[edit.id], NextReplacement)
    /\ buffer' = [buffer EXCEPT ![edit.id] = Replace(@, NextReplacement)]
    /\ edit' = [edit EXCEPT !.k = @ + 1]
    /\ UNCHANGED <<registry, version, status, sver, result, scheduled, inflight,
                   lastEdit, nops, handlers>>
    /\ UNCHANGED server

\* apply_edit: version incremented once, Stale, reparse scheduled, lock released
EndEdit ==
    /\ edit.id # NoId
    /\ edit.k = Len(edit.batch)
    /\ LET i == edit.id IN
         /\ version' = [version EXCEPT ![i] = VersionAfterBatch(@, Len(edit.batch))]
         /\ status' = [status EXCEPT ![i] = "Stale"]
         /\ sver' = [sver EXCEPT ![i] = NoVersion]
         /\ scheduled' = [scheduled EXCEPT ![i] = TRUE]
    /\ lastEdit' = Len(edit.batch)
    /\ edit' = NoEdit
    /\ UNCHANGED <<registry, buffer, result, inflight, nops, handlers>>
    /\ UNCHANGED server

(***************************************************************************)
(* Readers of a buffer.                                                    *)
(***************************************************************************)
\* a reader that does not take the entry's lock
CanReadUnlocked(i) == TRUE

\* a reader is admitted while no apply_edit holds the entry's lock
CanRead(i) == Unlocked(i)

\* the buffer as of the entry's version: the one the batch in progress began with
CommittedBuffer(i) == IF edit.id = i THEN edit.pre ELSE buffer[i]

\* the buffer before the whole batch in progress and the buffer after it
\* (the buffer itself when no batch is in progress)
BatchBoundaries(i) ==
    IF edit.id = i THEN {edit.pre, ApplyBatch(edit.pre, edit.batch)} ELSE {buffer[i]}

(***************************************************************************)
(* Parse scheduling.                                                       *)
(***************************************************************************)
\* a scheduled parse started whether or not another is in flight
CanStartParseAlways(i) == scheduled[i]

\* a scheduled parse starts once no parse of the identity is in flight
CanStartParse(i) == scheduled[i] /\ inflight[i] = {}

\* the Parser Adapter is invoked on a snapshot of the buffer
ParseStart(i) ==
    /\ Known(i)
    /\ CanStartParse(i)
    /\ CanRead(i)
    /\ inflight' = [inflight EXCEPT ![i] = @ \cup {[v |-> version[i], src |-> buffer[i]]}]
    /\ status' = [status EXCEPT ![i] = "Parsing"]
    /\ sver' = [sver EXCEPT ![i] = version[i]]
    /\ scheduled' = [scheduled EXCEPT ![i] = FALSE]
    /\ UNCHANGED <<registry, buffer, version, result, edit, lastEdit, nops, handlers>>
    /\ UNCHANGED server

\* parse completion for version p.v with result res: Ready when p.v is the
\* current version, discarded otherwise
Completion(i, p, res) ==
    /\ inflight' = [inflight EXCEPT ![i] = @ \ {p}]
    /\ IF p.v = version[i]
       THEN /\ status' = [status EXCEPT ![i] = "Ready"]
            /\ sver' = [sver EXCEPT ![i] = p.v]
            /\ result' = [result EXCEPT ![i] = res]
       ELSE UNCHANGED <<status, sver, result>>
    /\ UNCHANGED <<registry, buffer, version, scheduled, edit, lastEdit, nops, handlers>>
    /\ UNCHANGED server

\* the Parser Adapter returns a parse tree
ParseComplete(i) ==
    \E p \in inflight[i] : Completion(i, p, [v |-> p.v, ok |-> TRUE, src |-> p.src])

\* the Parser Adapter fails: empty_result with a synthetic diagnostic
ParseFail(i) ==
    \E p \in inflight[i] : Completion(i, p, [v |-> p.v, ok |-> FALSE, src |-> <<>>])

(***************************************************************************)
(* Request handlers and wait_parse_ready.                                  *)
(***************************************************************************)
FormattingKinds == {"formatting", "range_formatting"}

\* the include_dependencies argument, were the handlers to pass true
IncludeDependenciesTrue(kind) == TRUE

\* the include_dependencies argument the formatting handlers pass
IncludeDependencies(kind) ==
    CASE kind = "formatting" -> FALSE
      [] kind = "range_formatting" -> FALSE

\* Option<Vec<TextEdit>>: None
NoEdits == [answered |-> TRUE, some |-> FALSE, edits |-> <<>>]

\* a formatting handler that answers with an edit
FormattingResultSome(kind) == [answered |-> TRUE, some |-> TRUE, edits |-> <<"edit">>]

\* the value of the formatting handlers: None
FormattingResult(kind) ==
    CASE kind = "formatting" -> NoEdits
      [] kind = "range_formatting" -> NoEdits

\* the answer of handler h once wait_parse_ready has returned to it
Answer(h) == IF hkind[h] = "formatting" THEN FormattingResult(hkind[h]) ELSE hedits[h]

\* formatting / range_formatting: get_id, then wait_parse_ready(file_id, false)
Formatting(h, kind, u) ==
    /\ hpc[h] = "idle"
    /\ GetIdEffect(u)
    /\ hpc' = [hpc EXCEPT ![h] = "got_id"]
    /\ hkind' = [hkind EXCEPT ![h] = "formatting"]
    /\ hid' = [hid EXCEPT ![h] = get_id(u)]
    /\ hdeps' = [hdeps EXCEPT ![h] = IncludeDependencies(kind)]
    /\ UNCHANGED <<entries, inflight, edit, lastEdit, nops, hv0, hret, hsnap, hedits>>
    /\ UNCHANGED server

\* the identities of the files entry i structurally depends on
Deps(i) == {names[u] : u \in Includes(uri[i])} \ {NoId}

DepsReady(i) == \A d \in Deps(i) : status[d] = "Ready"

\* the entry is Ready at a version >= v0
ReadyAt(i, v0) == status[i] = "Ready" /\ sver[i] >= v0

\* wait_parse_ready(i, _) is called: false at once for an unknown identity,
\* otherwise the current version is recorded and the caller suspends
WaitCall(h, i) ==
    IF Known(i)
    THEN /\ hpc' = [hpc EXCEPT ![h] = "waiting"]
         /\ hv0' = [hv0 EXCEPT ![h] = version[i]]
         /\ UNCHANGED hret
    ELSE /\ hpc' = [hpc EXCEPT ![h] = "returned"]
         /\ hret' = [hret EXCEPT ![h] = FALSE]
         /\ UNCHANGED hv0

\* the formatting handler calls wait_parse_ready(file_id, false)
WaitBegin(h) ==
    /\ hpc[h] = "got_id"
    /\ WaitCall(h, hid[h])
    /\ hedits' = [hedits EXCEPT ![h] = IF Known(hid[h]) THEN @ ELSE Answer(h)]
    /\ UNCHANGED <<registry, entries, inflight, edit, lastEdit, nops, hkind, hid,
                   hdeps, hsnap>>
    /\ UNCHANGED server

\* another feature handler (completion, hover, definition) calls
\* wait_parse_ready(i, true)
Query(h, i) ==
    /\ hpc[h] = "idle"
    /\ hkind' = [hkind EXCEPT ![h] = "query"]
    /\ hid' = [hid EXCEPT ![h] = i]
    /\ hdeps' = [hdeps EXCEPT ![h] = TRUE]
    /\ WaitCall(h, i)
    /\ UNCHANGED <<registry, entries, inflight, edit, lastEdit, nops, hsnap, hedits>>
    /\ UNCHANGED server

\* the stored result is that of the current version: the parse of the buffer
\* of that version, or the empty result of a failed parse of it
ResultIsCurrent(i) ==
    /\ result[i].v = version[i]
    /\ result[i].ok => result[i].src = CommittedBuffer(i)

\* what lets a suspended wait_parse_ready return
WaitSatisfied(h) ==
    /\ ReadyAt(hid[h], hv0[h])
    /\ hdeps[h] => DepsReady(hid[h])

\* wait_parse_ready returns true
WaitReturn(h) ==
    /\ hpc[h] = "waiting"
    /\ WaitSatisfied(h)
    /\ hpc' = [hpc EXCEPT ![h] = "returned"]
    /\ hret' = [hret EXCEPT ![h] = TRUE]
    /\ hsnap' = [hsnap EXCEPT ![h] =
                   [status |-> status[hid[h]], v |-> sver[hid[h]],
                    fresh |-> ResultIsCurrent(hid[h]),
                    depsReady |-> DepsReady(hid[h]),
                    depBusy |-> \E d \in Deps(hid[h]) : status[d] \in {"Parsing", "Stale"},
                    whole |-> TRUE]]
    /\ hedits' = [hedits EXCEPT ![h] = Answer(h)]
    /\ UNCHANGED <<registry, entries, inflight, edit, lastEdit, nops, hkind, hid,
                   hdeps, hv0>>
    /\ UNCHANGED server

\* a handler that reads the buffer (a snapshot for the checker tools, a
\* query of the text) observes it
Read(h, i) ==
    /\ hpc[h] = "idle"
    /\ Known(i)
    /\ CanRead(i)
    /\ hpc' = [hpc EXCEPT ![h] = "returned"]
    /\ hkind' = [hkind EXCEPT ![h] = "read"]
    /\ hid' = [hid EXCEPT ![h] = i]
    /\ hsnap' = [hsnap EXCEPT ![h] =
                   [NoSnap EXCEPT !.whole = buffer[i] \in BatchBoundaries(i)]]
    /\ UNCHANGED <<registry, entries, inflight, edit, lastEdit, nops, hdeps, hv0, hret,
                   hedits>>
    /\ UNCHANGED server

\* the handler returns to its caller (the formatting handlers return None)
HandlerEnd(h) ==
    /\ hpc[h] = "returned"
    /\ hpc' = [hpc EXCEPT ![h] = "idle"]
    /\ hkind' = [hkind EXCEPT ![h] = "none"]
    /\ hid' = [hid EXCEPT ![h] = NoId]
    /\ hdeps' = [hdeps EXCEPT ![h] = FALSE]
    /\ hv0' = [hv0 EXCEPT ![h] = NoVersion]
    /\ hret' = [hret EXCEPT ![h] = FALSE]
    /\ hsnap' = [hsnap EXCEPT ![h] = NoSnap]
    /\ hedits' = [hedits EXCEPT ![h] = NoAnswer]
    /\ UNCHANGED <<registry, entries, inflight, edit, lastEdit, nops>>
    /\ UNCHANGED server

(***************************************************************************)
(* Specification.                                                          *)
(***************************************************************************)
Next ==
    \/ \E u \in URIs : GetId(u)
    \/ \E u \in URIs, text \in OpenTexts : Open(u, text)
    \/ \E i \in Ids, batch \in Batches : BeginEdit(i, batch)
    \/ EditStep
    \/ EndEdit
    \/ \E i \in Ids : ParseStart(i)
    \/ \E i \in Ids : ParseComplete(i)
    \/ \E i \in Ids : ParseFail(i)
    \/ \E h \in Handlers, kind \in FormattingKinds, u \in URIs : Formatting(h, kind, u)
    \/ \E h \in Handlers, i \in Ids : Query(h, i)
    \/ \E h \in Handlers, i \in Ids : Read(h, i)
    \/ \E h \in Handlers : WaitBegin(h)
    \/ \E h \in Handlers : WaitReturn(h)
    \/ \E h \in Handlers : HandlerEnd(h)

Spec == Init /\ [][Next]_vars

\* parses and suspended waits are scheduled fairly; an apply_edit that holds
\* the lock runs to its end
Fairness ==
    /\ \A i \in Ids : WF_vars(ParseStart(i))
    /\ \A i \in Ids : WF_vars(ParseComplete(i) \/ ParseFail(i))
    /\ WF_vars(EditStep)
    /\ WF_vars(EndEdit)
    /\ \A h \in Handlers : WF_vars(WaitBegin(h))
    /\ \A h \in Handlers : WF_vars(WaitReturn(h))

FairSpec == Spec /\ Fairness

(***************************************************************************)
(* Server: initialize.                                                     *)
(***************************************************************************)
\* how read_config can go: no root URI (or one that is no path), no
\* veridian.yaml / veridian.yml in any ancestor, a file that cannot be read,
\* contents serde_yaml rejects, or a configuration
LoadOutcomes == {"no_root", "no_file", "unreadable", "invalid", "loaded"}

\* the tool settings a configuration file can hold
Configs == [ToolSet -> BOOLEAN]

\* LogLevel
LogLevels == {"error", "warn", "info", "debug", "trace"}

\* read_config
read_config(outcome, cfg) ==
    IF outcome = "loaded" THEN [ok |-> TRUE, conf |-> cfg]
    ELSE [ok |-> FALSE, conf |-> DefaultConf]

\* parse_and_push_temp_spec accepts the level's name
PushTempSpecOk(level) == level \in {"error", "warn", "info", "debug", "trace"}

\* initialize sets conf.<tool>.enabled = enabled && which(path).is_ok() for
\* these tools
AvailabilityChecked(t) == t \in {"verible_lint", "verilator_syntax"}

\* the configuration initialize goes on with when read_config returned r
ConfAfterLoad(r) == IF r.ok THEN r.conf ELSE DefaultConf

\* an initialize that gives up when the configuration cannot be loaded
InitializeFailsOnLoadError(r, level) == ~r.ok

\* initialize gives up with an error response
InitializeFails(r, level) == r.ok /\ ~PushTempSpecOk(level)

\* initialize(params)
Initialize(outcome, cfg, level, loc) ==
    /\ ipc = "new"
    /\ iload' = outcome
    /\ located' = loc
    /\ LET r == read_config(outcome, cfg)
           c == ConfAfterLoad(r)
       IN  IF InitializeFails(r, level)
           THEN /\ ipc' = "error"
                /\ UNCHANGED <<conf, isrcs>>
           ELSE /\ conf' = [t \in ToolSet |->
                              IF AvailabilityChecked(t) THEN c[t] /\ loc[t] ELSE c[t]]
                /\ isrcs' = TRUE
                /\ ipc' = "ok"
    /\ UNCHANGED <<vars_registry, pipeline, publishing>>

(***************************************************************************)
(* Diagnostics pipeline: get_diagnostics.                                  *)
(***************************************************************************)
\* get_diagnostics(uri, rope, files, conf) is entered
GetDiagnosticsCall(u) ==
    /\ ipc = "ok"
    /\ gpc = "idle"
    /\ gpc' = "run"
    /\ guri' = u
    /\ gk' = 1
    /\ diagnostics' = <<>>
    /\ drun' = NoRun
    /\ UNCHANGED <<vars_registry, config, publishing>>

\* the tool is run when its enabled flag is set
ShouldRun(t) == conf[t]

\* if conf.<tool>.enabled is false the tool is passed over
SkipTool(k) ==
    /\ gpc = "run"
    /\ gk = k
    /\ ~ShouldRun(Tools[k])
    /\ gk' = k + 1
    /\ drun' = Run("disabled", <<>>)
    /\ UNCHANGED <<vars_registry, config, gpc, guri, diagnostics, publishing>>

\* uri.to_file_path() is an Err: Vec::new()
NoPath(k) ==
    /\ gpc = "run"
    /\ gk = k
    /\ ShouldRun(Tools[k])
    /\ NeedsPath(Tools[k])
    /\ ~HasFilePath(guri)
    /\ gk' = k + 1
    /\ drun' = Run("no_path", <<>>)
    /\ UNCHANGED <<vars_registry, config, gpc, guri, diagnostics, publishing>>

\* a list that takes the tool's result in front
ExtendedInFront(ds, r) == unwrap_or_default(r) \o ds

\* the list after the tool's result r has been added
Extended(ds, r) == ds \o unwrap_or_default(r)

\* diagnostics.extend(<tool>(..).unwrap_or_default())
RunTool(k) ==
    /\ gpc = "run"
    /\ gk = k
    /\ ShouldRun(Tools[k])
    /\ NeedsPath(Tools[k]) => HasFilePath(guri)
    /\ LET t == Tools[k]
           f == PathFor(t, guri)
       IN  \E run \in RunsOf(t, f, located[t]), mode \in OverflowModes :
             LET r == ToolResult(t, run, f, mode)
             IN  /\ drun' = run
                 /\ IF r.panic
                    THEN /\ gpc' = "panicked"
                         /\ UNCHANGED <<gk, diagnostics>>
                    ELSE /\ diagnostics' = Extended(diagnostics, r)
                         /\ gk' = k + 1
                         /\ UNCHANGED gpc
    /\ UNCHANGED <<vars_registry, config, guri, publishing>>

\* PublishDiagnosticsParams { uri, diagnostics, version: None }
GetDiagnosticsReturn ==
    /\ gpc = "run"
    /\ gk = Len(Tools) + 1
    /\ gpc' = "returned"
    /\ UNCHANGED <<vars_registry, config, guri, gk, diagnostics, drun, publishing>>

\* the caller has taken the result
GetDiagnosticsEnd ==
    /\ gpc = "returned"
    /\ gpc' = "idle"
    /\ guri' = NoUri
    /\ gk' = 0
    /\ diagnostics' = <<>>
    /\ drun' = NoRun
    /\ UNCHANGED <<vars_registry, config, publishing>>

DiagNext ==
    \/ \E outcome \in LoadOutcomes, cfg \in Configs, level \in LogLevels,
          loc \in [ToolSet -> BOOLEAN] : Initialize(outcome, cfg, level, loc)
    \/ \E u \in DiagUris : GetDiagnosticsCall(u)
    \/ \E k \in DOMAIN Tools : SkipTool(k)
    \/ \E k \in DOMAIN Tools : NoPath(k)
    \/ \E k \in DOMAIN Tools : RunTool(k)
    \/ GetDiagnosticsReturn
    \/ GetDiagnosticsEnd

DiagSpec == Init /\ [][DiagNext]_vars

(***************************************************************************)
(* Server: did_open and did_save publish the diagnostics.                  *)
(***************************************************************************)
\* the open and save events of one run, numbered as they arrive
EventNumbers == 1..4

\* a finding of the run that event ev triggered
Finding(ev) == [run |-> ev]

\* the lists the run of event ev can produce
ListsOfRun(ev) == {<<>>, <<Finding(ev)>>}

\* self.server.did_open(params) / self.server.did_save(params): the event
\* is taken and its diagnostics are computed, up to the await
DiagnosticsComputed(p, ds) ==
    /\ ppc[p] = "idle"
    /\ pevents + 1 \in EventNumbers
    /\ ds \in ListsOfRun(pevents + 1)
    /\ pevents' = pevents + 1
    /\ ppc' = [ppc EXCEPT ![p] = "computed"]
    /\ plist' = [plist EXCEPT ![p] = [ev |-> pevents + 1, diagnostics |-> ds]]
    /\ UNCHANGED <<vars_registry, config, pipeline, published>>

did_open(p, ds) == DiagnosticsComputed(p, ds)

did_save(p, ds) == DiagnosticsComputed(p, ds)

\* self.client.publish_diagnostics(uri, diagnostics, version).await completes:
\* the client replaces the list it holds for the file
Publish(p) ==
    /\ ppc[p] = "computed"
    /\ published' = plist[p]
    /\ ppc' = [ppc EXCEPT ![p] = "idle"]
    /\ plist' = [plist EXCEPT ![p] = NoList]
    /\ UNCHANGED <<vars_registry, config, pipeline, pevents>>

PubNext ==
    \/ \E p \in Publishers, ds \in ListsOfRun(pevents + 1) : did_open(p, ds)
    \/ \E p \in Publishers, ds \in ListsOfRun(pevents + 1) : did_save(p, ds)
    \/ \E p \in Publishers : Publish(p)

PubSpec == Init /\ [][PubNext]_vars

(***************************************************************************)
(* Properties.                                                             *)
(***************************************************************************)
\* handler h has come back from wait_parse_ready with true
WaitReturnedTrue(h) == hpc[h] = "returned" /\ hkind[h] # "read" /\ hret[h]

\* C1 Readiness freshness: whenever wait_parse_ready returns true the entry is
\* Ready(v, _) with v at least the version recorded when the call started, and
\* the result it returns on was computed from the buffer of that version, not
\* from the text of an earlier edit.
ReadinessFreshness ==
    \A h \in Handlers :
        WaitReturnedTrue(h) =>
            /\ hsnap[h].status = "Ready"
            /\ hsnap[h].v >= hv0[h]
            /\ hsnap[h].fresh

\* C2 Last-edit-wins: Ready(v, result) has v equal to the current version and
\* result computed from the buffer the entry holds at that version; no parse
\* in flight carries a version above the current one.
LastEditWins ==
    \A i \in Ids :
        /\ status[i] = "Ready" => (sver[i] = version[i] /\ ResultIsCurrent(i))
        /\ \A p \in inflight[i] : p.v <= version[i]

\* an apply_edit batch is committed in this step
BatchCommitted == edit.id # NoId /\ edit'.id = NoId

\* C3 Version step: an accepted apply_edit batch, of one replacement or of
\* many, increases the version of its entry by exactly one, once, when it is
\* committed, and changes the version of no other entry.
VersionStep ==
    [][/\ BatchCommitted => version' = [version EXCEPT ![edit.id] = @ + 1]
       /\ (edit' # edit /\ ~BatchCommitted) => version' = version]_vars

\* a batch of two replacements has been committed while another entry exists
VersionStepWitness ==
    /\ lastEdit = 2
    /\ nfiles = 2
    /\ \E i \in Ids : version[i] = 1

\* C4 Version never decreases: over any sequence of open and apply_edit calls
\* an entry's version is at least what it was in the previous state.
VersionNeverDecreases ==
    [][\A i \in Ids : version'[i] >= version[i]]_vars

\* the URI-to-identity mapping is a bijection between the URIs that have an
\* identity and the entries 1..nfiles
Bijection ==
    /\ \A u \in URIs : names[u] # NoId => (Known(names[u]) /\ uri[names[u]] = u)
    /\ \A i \in Ids : Known(i) => (uri[i] \in URIs /\ names[uri[i]] = i)
    /\ \A i \in Ids : ~Known(i) => uri[i] = NoUri
    /\ \A u1, u2 \in URIs : (names[u1] # NoId /\ names[u1] = names[u2]) => u1 = u2

\* C5 No double identity: after every get_id and open call the URI-to-identity
\* mapping is a bijection (each URI has one identity, no two URIs share one),
\* and a URI that has an identity keeps it, so a repeated get_id returns the
\* identity first allocated.
NoDoubleIdentity ==
    [][/\ Bijection'
       /\ \A u \in URIs : names[u] # NoId => names'[u] = names[u]]_vars

\* both URIs have an identity and get_id has been called again on an opened one
NoDoubleIdentityWitness ==
    /\ nfiles = 2
    /\ \E h \in Handlers : hpc[h] = "got_id" /\ Opened(hid[h])

\* C6 Single parse in flight: at most one parse is in flight per identity; a
\* step of an apply_edit neither removes a parse in flight nor adds one.
SingleParseInFlight ==
    [][/\ \A i \in Ids : Cardinality(inflight'[i]) <= 1
       /\ edit' # edit => inflight' = inflight]_vars

\* an edit was committed while a parse of its entry was in flight, the parse
\* is still in flight, the reparse waits, and the other identity has a parse
\* in flight at the same time
SingleParseInFlightWitness ==
    \E i, j \in Ids :
        /\ i # j
        /\ inflight[j] # {}
        /\ scheduled[i]
        /\ \E p \in inflight[i] : p.v < version[i]

\* the wait of handler h may count on every file it needs having been opened
WaitCanEnd(h) ==
    /\ Opened(hid[h])
    /\ hdeps[h] => \A d \in Deps(hid[h]) : Opened(d)

\* C7 Eventual readiness: under fair scheduling an opened entry that needs a
\* parse reaches Ready at its current version, and a wait_parse_ready call
\* pending on an opened file returns.
EventualReadiness ==
    /\ \A i \in Ids : Opened(i) ~> (status[i] = "Ready" /\ sver[i] = version[i])
    /\ \A h \in Handlers :
          (hpc[h] = "waiting" /\ WaitCanEnd(h)) ~>
              (hpc[h] # "waiting" \/ ~WaitCanEnd(h))

\* the Parser Adapter fails in this step on the parse entry i is Parsing
FailedWhileParsing(i) ==
    /\ status[i] = "Parsing"
    /\ \E p \in inflight[i] :
          /\ inflight'[i] = inflight[i] \ {p}
          /\ result'[i] = [v |-> p.v, ok |-> FALSE, src |-> <<>>]

\* C8 Parser failure does not block waiters: when the Parser Adapter fails on
\* the parse of version v the entry becomes Ready(v, empty_result), and every
\* wait_parse_ready call pending on that identity alone is released.
FailureReleasesWaiters ==
    [][\A i \in Ids :
          FailedWhileParsing(i) =>
             /\ status'[i] = "Ready"
             /\ sver'[i] = sver[i]
             /\ \A h \in Handlers :
                   (hpc[h] = "waiting" /\ hid[h] = i /\ ~hdeps[h]) =>
                       sver'[i] >= hv0[h]]_vars

\* C9 Dependency wait: wait_parse_ready(identity, true) returns true only when
\* the file and every file it depends on are Ready; wait_parse_ready(identity,
\* false) can return as soon as the file alone is Ready; the formatting
\* handlers use the false form.
DependencyWait ==
    \A h \in Handlers :
        /\ WaitReturnedTrue(h) =>
              /\ hsnap[h].status = "Ready"
              /\ hdeps[h] => hsnap[h].depsReady
        /\ (hpc[h] = "waiting" /\ ~hdeps[h] /\ ReadyAt(hid[h], hv0[h])) =>
              ENABLED WaitReturn(h)
        /\ hkind[h] = "formatting" => ~hdeps[h]

\* a formatting handler's wait returned true while a file its file includes
\* was Parsing or Stale
DependencyWaitWitness ==
    \E h \in Handlers :
        /\ WaitReturnedTrue(h)
        /\ hkind[h] = "formatting"
        /\ hsnap[h].depBusy

\* C10 Atomic edit batches: a reader observes the buffer before the whole
\* batch or after the whole batch, and under the lock the replacements are
\* applied in the order received.
AtomicEditBatches ==
    /\ \A h \in Handlers : hkind[h] = "read" => hsnap[h].whole
    /\ edit.id # NoId =>
          buffer[edit.id] = ApplyBatch(edit.pre, SubSeq(edit.batch, 1, edit.k))

\* a reader that read the buffer has not yet returned while a batch of two
\* replacements on that buffer is half applied
AtomicEditBatchesWitness ==
    \E h \in Handlers :
        /\ hpc[h] = "returned"
        /\ hkind[h] = "read"
        /\ edit.id = hid[h]
        /\ Len(edit.batch) = 2
        /\ edit.k = 1

(***************************************************************************)
(* Properties of the diagnostics pipeline.                                 *)
(***************************************************************************)
\* a tool has just been dealt with in the get_diagnostics call in progress
AfterTool == gpc \in {"run", "returned"} /\ gk > 1

\* that tool, and the file name it was run on
LastTool == Tools[gk - 1]

LastPath == PathFor(LastTool, guri)

\* this step deals with one tool of the call
ToolStep == gpc = "run" /\ (gk' # gk \/ gpc' = "panicked")

\* the tool's pattern captures line l
Captures(t, l) == IF t = "verilator_syntax" THEN l.pct /\ VerilatorCaptures(l)
                  ELSE VeribleCaptures(l)

\* a numeric field of the captured line l does not parse
BadNumber(l) ==
    \/ ~ParseU32(l.line).ok
    \/ l.hascol /\ ~ParseU32(l.col).ok
    \/ l.hasend /\ ~ParseU32(l.endcol).ok

\* a 1-based number
Positive(ds) == ParseU32(ds).ok /\ ParseU32(ds).n # U32Zero

\* l is a well-formed finding of tool t on the file named f
WellFormed(t, l, f) ==
    /\ Captures(t, l)
    /\ l.path = f
    /\ Positive(l.line)
    /\ l.hascol => Positive(l.col)
    /\ l.hasend => Positive(l.endcol)
    /\ (t = "verilator_syntax" /\ l.sev = "Warning") => l.code

\* C11 Success means no findings: a tool that exits with success adds nothing
\* to the list, whatever it printed, every time it is run.
SuccessMeansNoFindings ==
    [][(ToolStep /\ drun'.how = "success") => diagnostics' = diagnostics]_vars

\* a tool that printed a well-formed finding and exited with success has been
\* run after another tool that had done the same
SuccessMeansNoFindingsWitness ==
    /\ AfterTool
    /\ gk > 2
    /\ drun.how = "success"
    /\ \E k \in DOMAIN drun.lines : WellFormed(LastTool, drun.lines[k], LastPath)
    /\ diagnostics = <<>>

\* C12 Non-matching lines are ignored: when a failing tool prints lines that
\* its pattern does not capture among well-formed findings on the checked
\* file, each of those findings still yields its diagnostic.
NonMatchingLinesIgnored ==
    (/\ AfterTool
     /\ drun.how = "failure"
     /\ \A k \in DOMAIN drun.lines :
           ~Captures(LastTool, drun.lines[k]) \/ WellFormed(LastTool, drun.lines[k], LastPath))
    => \A k \in DOMAIN drun.lines :
           Captures(LastTool, drun.lines[k]) =>
               \E j \in DOMAIN diagnostics :
                   /\ diagnostics[j].tool = LastTool
                   /\ diagnostics[j].k = k
                   /\ diagnostics[j].origin = drun.lines[k]

\* the failing run of this step printed a captured line with a bad number
PrintedBadNumber(t, f, own) ==
    /\ drun'.how = "failure"
    /\ \E k \in DOMAIN drun'.lines :
          /\ Captures(t, drun'.lines[k])
          /\ BadNumber(drun'.lines[k])
          /\ own => drun'.lines[k].path = f

\* C13 as stated: any captured line with a number that does not parse makes
\* the tool's run contribute nothing, the other tools' diagnostics untouched.
FailClosedOnAnyLine ==
    [][(ToolStep /\ PrintedBadNumber(Tools[gk], PathFor(Tools[gk], guri), FALSE))
          => diagnostics' = diagnostics]_vars

\* C13 Fail-closed on malformed numbers: a captured line naming the checked
\* file with a number that does not parse makes the tool's run add nothing to
\* the list, and what the other tools contributed stays as it was.
FailClosed ==
    [][(ToolStep /\ PrintedBadNumber(Tools[gk], PathFor(Tools[gk], guri), TRUE))
          => diagnostics' = diagnostics]_vars

\* after another tool contributed a diagnostic, a tool printed a well-formed
\* finding and then a line with a bad number, and contributed nothing
FailClosedWitness ==
    /\ AfterTool
    /\ drun.how = "failure"
    /\ Len(drun.lines) = 2
    /\ WellFormed(LastTool, drun.lines[1], LastPath)
    /\ Captures(LastTool, drun.lines[2]) /\ BadNumber(drun.lines[2])
    /\ drun.lines[2].path = LastPath
    /\ Len(diagnostics) = 1
    /\ diagnostics[1].tool # LastTool

\* C14 Per-file diagnostics: every diagnostic in the list comes from an output
\* line whose file path is that of the requested file.
PerFileDiagnostics ==
    gpc \in {"run", "returned"} =>
        \A j \in DOMAIN diagnostics :
            diagnostics[j].origin.path = PathFor(diagnostics[j].tool, guri)

\* C15 Unavailable tool is disabled: after initialize a tool whose executable
\* is not found has enabled = false, and get_diagnostics does not run a tool
\* whose enabled flag is false.
UnavailableToolDisabled ==
    /\ ipc = "ok" => \A t \in ToolSet : ~located[t] => ~conf[t]
    /\ (AfterTool /\ ~conf[LastTool]) =>
           /\ drun.how = "disabled"
           /\ \A j \in DOMAIN diagnostics : diagnostics[j].tool # LastTool

\* C16 Failure isolation: when the path conversion, the spawn, the write to
\* standard input, the wait or the decoding of the output fails for a tool,
\* the call goes on to the next tool and the list stays as it was.
FailureIsolation ==
    [][(ToolStep /\ drun'.how \in ProcessFailures \cup {"no_path", "not_utf8"})
          => (diagnostics' = diagnostics /\ gpc' = "run" /\ gk' = gk + 1)]_vars

\* a call on a document without a file path returned the diagnostics of
\* verible_syntax, the two other tools having contributed nothing
FailureIsolationWitness ==
    /\ gpc = "returned"
    /\ ~HasFilePath(guri)
    /\ drun.how = "no_path"
    /\ Len(diagnostics) = 2

\* C17 Configuration errors are never fatal: whatever read_config returned,
\* initialize answers with success, goes on with the default configuration
\* when the load failed, has applied the availability checks and has
\* initialised the source registry.
ConfigErrorsNotFatal ==
    ipc # "new" =>
        /\ ipc = "ok"
        /\ isrcs
        /\ \A t \in ToolSet : (AvailabilityChecked(t) /\ ~located[t]) => ~conf[t]
        /\ iload # "loaded" =>
              \A t \in ToolSet :
                  conf[t] = (DefaultConf[t] /\ (AvailabilityChecked(t) => located[t]))

\* initialize has answered after a configuration file that is not valid
\* YAML, one checked tool being available and the other not
ConfigErrorsNotFatalWitness ==
    /\ ipc = "ok"
    /\ iload = "invalid"
    /\ isrcs
    /\ located["verilator_syntax"] /\ conf["verilator_syntax"]
    /\ ~located["verible_lint"] /\ ~conf["verible_lint"]

\* C18 Full replacement of diagnostics: each publication replaces the list
\* the client holds by the list of one run, and that run belongs to a later
\* event than the run whose list it replaces.
FullReplacement ==
    [][published' # published =>
          /\ published'.ev > published.ev
          /\ \A k \in DOMAIN published'.diagnostics :
                published'.diagnostics[k].run = published'.ev]_vars

\* the position of a tool in the order get_diagnostics runs them
ToolIndex(t) == CHOOSE i \in DOMAIN Tools : Tools[i] = t

\* C19 Tool order: the returned list holds diagnostics of enabled tools only,
\* those of verilator_syntax before those of verible_syntax before those of
\* verible_lint, and those of one tool in the order of its output lines.
ToolOrder ==
    gpc = "returned" =>
        /\ \A j \in DOMAIN diagnostics : conf[diagnostics[j].tool]
        /\ \A i, j \in DOMAIN diagnostics :
              i < j =>
                  \/ ToolIndex(diagnostics[i].tool) < ToolIndex(diagnostics[j].tool)
                  \/ /\ diagnostics[i].tool = diagnostics[j].tool
                     /\ diagnostics[i].k < diagnostics[j].k

\* a call returned two diagnostics of one tool followed by one of a later tool
ToolOrderWitness ==
    /\ gpc = "returned"
    /\ Len(diagnostics) >= 3
    /\ diagnostics[1].tool = diagnostics[2].tool
    /\ diagnostics[2].tool # diagnostics[3].tool

\* the 1-based column of the finding on line l (verilator: 1 when absent)
ColumnOf(l) == IF l.hascol THEN ParseU32(l.col).n ELSE U32One

\* C20 Position conversion: a finding at line L >= 1 and column C >= 1 starts
\* at (L-1, C-1); a verible finding ends at (L-1, E-1) when it reports an end
\* column E and at its start otherwise; a verilator finding ends at its start.
PositionConversion ==
    gpc \in {"run", "returned"} =>
        \A j \in DOMAIN diagnostics :
            LET d == diagnostics[j]
                l == d.origin
                L == ParseU32(l.line).n
                C == ColumnOf(l)
                E == ParseU32(l.endcol).n
            IN  (L # U32Zero /\ C # U32Zero) =>
                    /\ d.start = [line |-> Pred32(L), character |-> Pred32(C)]
                    /\ IF d.tool = "verilator_syntax" \/ ~l.hasend
                       THEN d.end = d.start
                       ELSE /\ E # U32Zero
                            /\ d.end = [line |-> Pred32(L), character |-> Pred32(E)]

\* l is a finding of verilator on the file named f with 1-based numbers,
\* with or without a warning code
VerilatorFinding(l, f) ==
    /\ Captures("verilator_syntax", l)
    /\ l.path = f
    /\ Positive(l.line)
    /\ l.hascol => Positive(l.col)

\* the diagnostics in the list that come from line k of the last tool's output
FromLine(k) ==
    {j \in DOMAIN diagnostics : diagnostics[j].tool = LastTool /\ diagnostics[j].k = k}

\* the severity the tag stands for
SeverityOfTag(sev) == IF sev = "Error" THEN "ERROR" ELSE "WARNING"

\* C21 Severity mapping, one diagnostic per finding: in a failing verilator
\* run whose captured lines on the checked file carry 1-based numbers, each of
\* those lines yields exactly one diagnostic, of error severity for Error and
\* of warning severity for Warning, with or without a warning code; every
\* verible diagnostic has error severity.
SeverityMapping ==
    /\ (/\ AfterTool
        /\ LastTool = "verilator_syntax"
        /\ drun.how = "failure"
        /\ \A k \in DOMAIN drun.lines :
              (Captures(LastTool, drun.lines[k]) /\ drun.lines[k].path = LastPath)
                  => VerilatorFinding(drun.lines[k], LastPath))
       => \A k \in DOMAIN drun.lines :
              VerilatorFinding(drun.lines[k], LastPath) =>
                  /\ Cardinality(FromLine(k)) = 1
                  /\ \A j \in FromLine(k) :
                        diagnostics[j].severity = SeverityOfTag(drun.lines[k].sev)
    /\ gpc \in {"run", "returned"} =>
          \A j \in DOMAIN diagnostics :
              diagnostics[j].tool # "verilator_syntax" => diagnostics[j].severity = "ERROR"

\* C22 No underflow in position conversion: get_diagnostics never panics and
\* never returns a position at 4294967295, whatever the tools print.
NoUnderflow ==
    /\ gpc # "panicked"
    /\ \A j \in DOMAIN diagnostics :
          /\ diagnostics[j].start.line # U32Max
          /\ diagnostics[j].start.character # U32Max
          /\ diagnostics[j].end.line # U32Max
          /\ diagnostics[j].end.character # U32Max

\* C23 Formatting requests terminate: wait_parse_ready returns to every
\* formatting or range_formatting handler that has taken its identity from
\* get_id, also when get_id has just created the entry.
FormattingTerminates ==
    \A h \in Handlers :
        (hpc[h] = "got_id" /\ hkind[h] = "formatting") ~> (hpc[h] = "returned")

\* the step is taken by a request handler
HandlerStep(h) == hpc'[h] # hpc[h]

\* C24 Read paths do not mutate: a step of wait_parse_ready or of a
\* formatting handler leaves buffer, version and parse_status of every
\* existing entry as they were; it changes the registry only when a
\* formatting handler's get_id creates an Unparsed entry for a URI not yet
\* known; and a formatting handler answers with no edits.
ReadPathsDoNotMutate ==
    [][\A h \in Handlers :
          HandlerStep(h) =>
              /\ \A i \in 1..nfiles :
                    /\ buffer'[i] = buffer[i]
                    /\ version'[i] = version[i]
                    /\ status'[i] = status[i]
                    /\ sver'[i] = sver[i]
                    /\ result'[i] = result[i]
                    /\ uri'[i] = uri[i]
              /\ \A u \in URIs : names[u] # NoId => names'[u] = names[u]
              /\ \/ registry' = registry
                 \/ /\ hpc[h] = "idle" /\ hpc'[h] = "got_id"
                    /\ nfiles' = nfiles + 1
                    /\ \E u \in URIs :
                          /\ names[u] = NoId
                          /\ names' = [names EXCEPT ![u] = nfiles']
                          /\ uri'[nfiles'] = u
                    /\ status'[nfiles'] = "Unparsed"
                    /\ ~scheduled'[nfiles']
              /\ (hpc'[h] = "returned" /\ hkind'[h] = "formatting") => hedits'[h] = NoEdits]_vars

\* a formatting handler to which wait_parse_ready returned true is about to
\* answer with no edits, the registry holding a second entry that is still
\* Unparsed with no parse scheduled
ReadPathsDoNotMutateWitness ==
    \E h \in Handlers :
        /\ hpc[h] = "returned" /\ hkind[h] = "formatting" /\ hret[h]
        /\ hedits[h] = NoEdits
        /\ \E i \in 1..nfiles : i # hid[h] /\ status[i] = "Unparsed" /\ ~scheduled[i]

====
